---------------------------- MODULE Spec2Model ----------------------------
(***************************************************************************)
(* Black Magic Debug target drivers:                                       *)
(*   - src/target/avr_jtagdp.c, src/target/avr_pdi.c : the AVR PDI         *)
(*     transport binding and register protocol (reset / halt sequences);   *)
(*   - src/target/lpc43xx.c : the LPC43xx chip-ID probe and the IAP flash   *)
(*     driver (flash_init, mass erase, mkboot, watchdog).                  *)
(*                                                                         *)
(* The PDI handlers are modelled one transport transaction at a time: a    *)
(* call is entered by its own action and every avr_jtag_shift_dr() it       *)
(* issues is one step in which the transport answers with a return value   *)
(* and a captured byte.  The LPC43xx handlers are modelled as one action   *)
(* each, with everything they read from the target drawn as an input.      *)
(***************************************************************************)
EXTENDS Integers, Sequences, FiniteSets, TLC

VARIABLES
    pdi,        \* the avr_pdi_t context: [mem, idcode, halt_reason]
    target,     \* the generic target object bound to the context
    ir,         \* JTAG instruction register of the device on the scan chain
    run,        \* the PDI call in progress or last completed
    shifts,     \* the avr_jtag_shift_dr() transactions issued by that call
    refuted,    \* history: return conventions under which an all-EMPTY,
                \* all-successful transport made a register access fail
    t,          \* the LPC43xx target descriptor
    t_before,   \* the descriptor as it was when the last LPC43xx call began
    call,       \* the last LPC43xx call: [fn, args, ret]
    io          \* the hardware accesses and ROM calls the last call issued

avrVars == <<pdi, target, ir, run, shifts, refuted>>
lpcVars == <<t, t_before, call, io>>
vars == <<pdi, target, ir, run, shifts, refuted, t, t_before, call, io>>

-----------------------------------------------------------------------------
(* Bounds of the model *)

\* register indices 0..MaxReg are offered to register_write / register_read
MaxReg == 17

-----------------------------------------------------------------------------
(* Bit arithmetic on unsigned values *)

RECURSIVE BitAnd(_, _)
BitAnd(a, b) ==
    IF a = 0 \/ b = 0 THEN 0
    ELSE (a % 2) * (b % 2) + 2 * BitAnd(a \div 2, b \div 2)

RECURSIVE BitOr(_, _)
BitOr(a, b) ==
    IF a = 0 THEN b
    ELSE IF b = 0 THEN a
    ELSE (IF a % 2 = 1 \/ b % 2 = 1 THEN 1 ELSE 0) + 2 * BitOr(a \div 2, b \div 2)

\* a uint8_t
U8(x) == x % 256

\* A 32-bit word is kept as its two 16-bit halves.
W(h, l) == [hi |-> h, lo |-> l]
And32(a, b) == W(BitAnd(a.hi, b.hi), BitAnd(a.lo, b.lo))
Or32(a, b) == W(BitOr(a.hi, b.hi), BitOr(a.lo, b.lo))
\* a + b modulo 2^32
Add32(a, b) ==
    W((a.hi + b.hi + (a.lo + b.lo) \div 65536) % 65536, (a.lo + b.lo) % 65536)
\* x >> n for 16 <= n < 32
Shr32(a, n) == a.hi \div (2 ^ (n - 16))

-----------------------------------------------------------------------------
(* avr_pdi.c : constants *)

IR_PDI == 7
IR_BYPASS == 15

PDI_EMPTY == 235            \* 0xEB

PDI_LDCS == 128             \* 0x80
PDI_STCS == 192             \* 0xC0

PDI_REG_STATUS == 0
PDI_REG_RESET == 1
PDI_REG_R3 == 3
PDI_REG_R4 == 4

PDI_RESET == 89             \* 0x59

\* the failure sentinel of avr_pdi_reg_read
ReadFailed == 255           \* 0xFF

TARGET_HALT_RUNNING == "TARGET_HALT_RUNNING"
TARGET_HALT_REQUEST == "TARGET_HALT_REQUEST"

\* bytes the transport is made to capture: the marker, the values the
\* sequences compare against, and the sentinel
DrBytes == {PDI_EMPTY, 0, 4, 16, 20, ReadFailed}

\* values offered to a direct register_write
WriteValues == {0, PDI_RESET}

\* ID codes latched during the scan: an ATxmega (0x0974C03F), one whose
\* part-number field is zero (0x0000003F), and zero
IdCodes == {W(2420, 49215), W(0, 63), W(0, 0)}

-----------------------------------------------------------------------------
(* avr_pdi.c : register access *)

\* outcome of one transport transaction inside a register access: the access
\* is over with a value, or it goes on to its second transaction
Done(v) == [done |-> TRUE, val |-> v]
Again == [done |-> FALSE, val |-> 0]

\* the index check off by one
RegRejected_m(reg) == reg > 16

\* the index check that precedes every transaction (reg >= 16)
RegRejected(reg) == reg >= 16

\* avr_pdi_reg_write that does not look at what its second transaction
\* captured
avr_pdi_reg_write_m(phase, rc, result) ==
    IF phase = 1
    THEN IF rc \/ result # PDI_EMPTY THEN Done(FALSE) ELSE Again
    ELSE IF rc THEN Done(FALSE) ELSE Done(TRUE)

\* avr_pdi_reg_write after the transaction of `phase` returned rc and
\* captured `result`; the calls are chained with ||, so a true return of
\* avr_jtag_shift_dr ends the access with false
avr_pdi_reg_write(phase, rc, result) ==
    IF phase = 1
    THEN IF rc \/ result # PDI_EMPTY THEN Done(FALSE) ELSE Again
    ELSE IF rc THEN Done(FALSE) ELSE Done(result = PDI_EMPTY)

\* avr_pdi_reg_read likewise; its second transaction is tested with !, so
\* there a false return ends the access with the sentinel
avr_pdi_reg_read(phase, rc, result) ==
    IF phase = 1
    THEN IF rc \/ result # PDI_EMPTY THEN Done(ReadFailed) ELSE Again
    ELSE IF ~rc THEN Done(ReadFailed) ELSE Done(result)

\* what a rejected index makes the access return
RejectedValue(kind) == IF kind = "write" THEN FALSE ELSE ReadFailed

\* the byte shifted in by the transaction of `phase`
DrIn(kind, reg, value, phase) ==
    IF kind = "write"
    THEN IF phase = 1 THEN U8(BitOr(PDI_STCS, reg)) ELSE value
    ELSE U8(BitOr(PDI_LDCS, reg))

-----------------------------------------------------------------------------
(* avr_pdi.c : the calls, as the register accesses they chain *)

\* a register access whose result the caller compares with `want`
Wr(reg, value) ==
    [kind |-> "write", reg |-> reg, value |-> value, check |-> TRUE, want |-> TRUE]
Rd(reg, want) ==
    [kind |-> "read", reg |-> reg, value |-> 0, check |-> TRUE, want |-> want]

\* avr_reset that reads back the RESET register
avr_reset_m ==
    << Wr(PDI_REG_RESET, PDI_RESET), Rd(PDI_REG_RESET, 0) >>

avr_reset ==
    << Wr(PDI_REG_RESET, PDI_RESET), Rd(PDI_REG_STATUS, 0) >>

\* avr_halt_request whose last read is compared with 0x14 again
avr_halt_request_m ==
    << Wr(PDI_REG_R4, 1), Rd(PDI_REG_R3, 16), Wr(PDI_REG_RESET, 0),
       Rd(PDI_REG_R3, 20), Rd(PDI_REG_R3, 20) >>

\* avr_halt_request that releases reset first and writes R4 third
avr_halt_request_early ==
    << Wr(PDI_REG_RESET, 0), Rd(PDI_REG_R3, 16), Wr(PDI_REG_R4, 1),
       Rd(PDI_REG_R3, 20), Rd(PDI_REG_R3, 4) >>

avr_halt_request ==
    << Wr(PDI_REG_R4, 1), Rd(PDI_REG_R3, 16), Wr(PDI_REG_RESET, 0),
       Rd(PDI_REG_R3, 20), Rd(PDI_REG_R3, 4) >>

\* a register access called on its own: the result goes to the caller
Direct(kind, reg, value) ==
    << [kind |-> kind, reg |-> reg, value |-> value, check |-> FALSE, want |-> 0] >>

DirectFns == {"avr_pdi_reg_write", "avr_pdi_reg_read"}

Steps(r) ==
    CASE r.fn = "avr_reset" -> avr_reset
      [] r.fn = "avr_halt_request" -> avr_halt_request
      [] r.fn = "avr_pdi_reg_write" -> Direct("write", r.reg, r.value)
      [] r.fn = "avr_pdi_reg_read" -> Direct("read", r.reg, r.value)
      [] OTHER -> << >>

\* raise_exception() does not return: the call ends there
raise_exception(r) == [r EXCEPT !.status = "raised", !.phase = 0]

\* the call comes to its end: the register accessors return their result
Return(r) ==
    [r EXCEPT !.status = "returned", !.phase = 0,
              !.ret = IF r.fn \in DirectFns THEN r.resp[Len(r.resp)] ELSE "void"]

RECURSIVE EnterStep(_)
\* the access of step r.step ended with v
Settle(r, v) ==
    LET s == Steps(r)[r.step]
        r1 == [r EXCEPT !.resp = Append(@, v)]
    IN  IF s.check /\ v # s.want
        THEN raise_exception(r1)
        ELSE EnterStep([r1 EXCEPT !.step = @ + 1])

\* control reaches step r.step: up to the next transaction, or to the end
EnterStep(r) ==
    IF r.step > Len(Steps(r))
    THEN Return(r)
    ELSE LET s == Steps(r)[r.step]
         IN  IF RegRejected(s.reg)
             THEN Settle(r, RejectedValue(s.kind))
             ELSE [r EXCEPT !.phase = 1]

\* the transaction the running call is waiting on returned rc, captured out
AfterShift(r, rc, out) ==
    LET s == Steps(r)[r.step]
        a == IF s.kind = "write"
             THEN avr_pdi_reg_write(r.phase, rc, out)
             ELSE avr_pdi_reg_read(r.phase, rc, out)
    IN  IF a.done THEN Settle(r, a.val) ELSE [r EXCEPT !.phase = 2]

\* halt_reason assigned also on the fatal exit of avr_halt_request
HaltReasonAfter_m(r, reason) ==
    IF r.fn = "avr_halt_request" /\ r.status # "running"
    THEN TARGET_HALT_REQUEST
    ELSE reason

\* pdi->halt_reason once the call has come to r
HaltReasonAfter(r, reason) ==
    IF r.fn = "avr_halt_request" /\ r.status = "returned"
    THEN TARGET_HALT_REQUEST
    ELSE reason

-----------------------------------------------------------------------------
(* avr_jtagdp.c, avr_pdi.c : state and actions *)

NoTarget ==
    [made |-> FALSE, cpuid |-> W(0, 0), part_id |-> 0, driver |-> "", core |-> "",
     priv |-> FALSE, callbacks |-> {}]

NoRun ==
    [fn |-> "none", reg |-> 0, value |-> 0, step |-> 0, phase |-> 0,
     status |-> "idle", ret |-> "void", resp |-> << >>, irw |-> << >>,
     halt_before |-> TARGET_HALT_RUNNING]

\* a call that begins: nothing issued yet
Begin(fn, reg, value) ==
    [NoRun EXCEPT !.fn = fn, !.reg = reg, !.value = value, !.step = 1,
                  !.status = "running", !.halt_before = pdi.halt_reason]

InitAvr ==
    [pdi |-> [mem |-> "none", idcode |-> W(0, 0), halt_reason |-> TARGET_HALT_RUNNING],
     target |-> NoTarget, run |-> NoRun]

\* the instruction the device holds when the scan calls the handler: that
\* is the scan's doing, so either of the two instructions is offered as an
\* input of the handler
IrAfterScan == {IR_BYPASS, IR_PDI}

\* the ID check with the manufacturer field taken in (0x0FFFFFFF)
PartNumber_m(idcode) == And32(idcode, W(4095, 65535))

\* the part-number field of the ID code
PartNumber(idcode) == And32(idcode, W(4095, 61440))     \* 0x0FFFF000

\* avr_pdi_init() that returns what atxmega_probe() returned
avr_jtag_pdi_handler_m ==
    /\ ~target.made
    /\ run.status # "running"
    /\ \E idcode \in IdCodes, calloc_ok \in BOOLEAN, new_ok \in BOOLEAN,
          known \in BOOLEAN, scan_ir \in IrAfterScan :
         LET r == [NoRun EXCEPT !.fn = "avr_pdi_init", !.status = "returned",
                                !.halt_before = pdi.halt_reason]
             fresh == [mem |-> "allocated", idcode |-> idcode,
                       halt_reason |-> TARGET_HALT_RUNNING]
         IN  IF ~calloc_ok
             THEN /\ run' = [r EXCEPT !.fn = "avr_jtag_pdi_handler"]
                  /\ ir' = scan_ir
                  /\ UNCHANGED <<pdi, target>>
             ELSE IF PartNumber(idcode) = W(0, 0)
             THEN /\ pdi' = [fresh EXCEPT !.mem = "freed"]
                  /\ run' = [r EXCEPT !.ret = FALSE]
                  /\ ir' = scan_ir
                  /\ UNCHANGED target
             ELSE IF ~new_ok
             THEN /\ pdi' = [fresh EXCEPT !.mem = "leaked"]
                  /\ ir' = IR_BYPASS
                  /\ run' = [r EXCEPT !.ret = FALSE, !.irw = <<IR_BYPASS>>]
                  /\ UNCHANGED target
             ELSE /\ pdi' = [fresh EXCEPT !.mem = "owned"]
                  /\ ir' = IR_BYPASS
                  /\ target' =
                        [made |-> TRUE, cpuid |-> idcode,
                         part_id |-> (idcode.hi % 4096) * 16 + idcode.lo \div 4096,
                         driver |-> "Atmel AVR", core |-> "AVR", priv |-> TRUE,
                         callbacks |-> {"attach", "detach", "reset",
                                        "halt_request", "halt_poll"}]
                  /\ run' = [r EXCEPT !.ret = known, !.irw = <<IR_BYPASS>>,
                                      !.resp = <<known>>]
    /\ shifts' = << >>
    /\ UNCHANGED <<refuted, lpcVars>>

\* avr_jtag_pdi_handler() and the avr_pdi_init() it ends with.  calloc()
\* hands out zeroed memory, target_new() may fail, atxmega_probe() may or
\* may not know the part.  The scan that calls the handler left scan_ir in
\* the instruction register.
avr_jtag_pdi_handler ==
    /\ ~target.made
    /\ run.status # "running"
    /\ \E idcode \in IdCodes, calloc_ok \in BOOLEAN, new_ok \in BOOLEAN,
          known \in BOOLEAN, scan_ir \in IrAfterScan :
         LET r == [NoRun EXCEPT !.fn = "avr_pdi_init", !.status = "returned",
                                !.halt_before = pdi.halt_reason]
             fresh == [mem |-> "allocated", idcode |-> idcode,
                       halt_reason |-> TARGET_HALT_RUNNING]
         IN  IF ~calloc_ok
             THEN /\ run' = [r EXCEPT !.fn = "avr_jtag_pdi_handler"]
                  /\ ir' = scan_ir
                  /\ UNCHANGED <<pdi, target>>
             ELSE IF PartNumber(idcode) = W(0, 0)
             THEN /\ pdi' = [fresh EXCEPT !.mem = "freed"]
                  /\ run' = [r EXCEPT !.ret = FALSE]
                  /\ ir' = scan_ir
                  /\ UNCHANGED target
             ELSE IF ~new_ok
             THEN /\ pdi' = [fresh EXCEPT !.mem = "leaked"]
                  /\ ir' = IR_BYPASS
                  /\ run' = [r EXCEPT !.ret = FALSE, !.irw = <<IR_BYPASS>>]
                  /\ UNCHANGED target
             ELSE /\ pdi' = [fresh EXCEPT !.mem = "owned"]
                  /\ ir' = IR_BYPASS
                  /\ target' =
                        [made |-> TRUE, cpuid |-> idcode,
                         part_id |-> (idcode.hi % 4096) * 16 + idcode.lo \div 4096,
                         driver |-> "Atmel AVR", core |-> "AVR", priv |-> TRUE,
                         callbacks |-> {"attach", "detach", "reset",
                                        "halt_request", "halt_poll"}]
                  /\ run' = [r EXCEPT !.ret = TRUE, !.irw = <<IR_BYPASS>>,
                                      !.resp = <<known>>]
    /\ shifts' = << >>
    /\ UNCHANGED <<refuted, lpcVars>>

\* the context can be used: it is the private data of a target
Bound == target.made /\ pdi.mem = "owned" /\ run.status # "running"

\* a register access, or a call that chains them, begins and runs up to its
\* first transaction (or to its end when it issues none)
Entered(fn, reg, value) == EnterStep(Begin(fn, reg, value))

Call_avr_pdi_reg_write ==
    /\ Bound
    /\ \E reg \in 0..MaxReg, value \in WriteValues :
         run' = Entered("avr_pdi_reg_write", reg, value)
    /\ shifts' = << >>
    /\ UNCHANGED <<pdi, target, ir, refuted, lpcVars>>

Call_avr_pdi_reg_read ==
    /\ Bound
    /\ \E reg \in 0..MaxReg : run' = Entered("avr_pdi_reg_read", reg, 0)
    /\ shifts' = << >>
    /\ UNCHANGED <<pdi, target, ir, refuted, lpcVars>>

Call_avr_reset ==
    /\ Bound
    /\ run' = Entered("avr_reset", 0, 0)
    /\ shifts' = << >>
    /\ UNCHANGED <<pdi, target, ir, refuted, lpcVars>>

Call_avr_halt_request ==
    /\ Bound
    /\ run' = Entered("avr_halt_request", 0, 0)
    /\ pdi' = [pdi EXCEPT !.halt_reason = HaltReasonAfter(run', @)]
    /\ shifts' = << >>
    /\ UNCHANGED <<target, ir, refuted, lpcVars>>

\* the transport served without fault under return convention s: every
\* transaction returned s and captured the empty marker
ServedEmpty(log, s) ==
    \A i \in 1..Len(log) : log[i].rc = s /\ log[i].dr_out = PDI_EMPTY

\* a register access that came back as a failure
AccessFailed(r) ==
    /\ r.status = "returned"
    /\ \/ r.fn = "avr_pdi_reg_write" /\ r.ret = FALSE
       \/ r.fn = "avr_pdi_reg_read" /\ r.ret = ReadFailed

\* avr_jtag_shift_dr(): the transport answers the transaction the running
\* call waits on, and the call runs on to its next transaction or its end
avr_jtag_shift_dr ==
    /\ run.status = "running"
    /\ \E rc \in BOOLEAN, out \in DrBytes :
         LET s == Steps(run)[run.step]
             r == AfterShift(run, rc, out)
             log == Append(shifts, [dr_in |-> DrIn(s.kind, s.reg, s.value, run.phase),
                                    rc |-> rc, dr_out |-> out])
         IN  /\ run' = r
             /\ shifts' = log
             /\ pdi' = [pdi EXCEPT !.halt_reason = HaltReasonAfter(r, @)]
             /\ refuted' = refuted \cup
                    {c \in BOOLEAN : /\ AccessFailed(r)
                                     /\ ~RegRejected(r.reg)
                                     /\ ServedEmpty(log, c)}
    /\ UNCHANGED <<target, ir, lpcVars>>

avr_halt_poll ==
    /\ Bound
    /\ run' = [NoRun EXCEPT !.fn = "avr_halt_poll", !.status = "returned",
                            !.ret = pdi.halt_reason,
                            !.halt_before = pdi.halt_reason]
    /\ shifts' = << >>
    /\ UNCHANGED <<pdi, target, ir, refuted, lpcVars>>

avr_attach ==
    /\ Bound
    /\ ir' = IR_PDI
    /\ run' = [NoRun EXCEPT !.fn = "avr_attach", !.status = "returned",
                            !.ret = TRUE, !.irw = <<IR_PDI>>,
                            !.halt_before = pdi.halt_reason]
    /\ shifts' = << >>
    /\ UNCHANGED <<pdi, target, refuted, lpcVars>>

\* avr_detach that leaves the instruction register alone
avr_detach_m ==
    /\ Bound
    /\ run' = [NoRun EXCEPT !.fn = "avr_detach", !.status = "returned",
                            !.halt_before = pdi.halt_reason]
    /\ shifts' = << >>
    /\ UNCHANGED <<pdi, target, ir, refuted, lpcVars>>

avr_detach ==
    /\ Bound
    /\ ir' = IR_BYPASS
    /\ run' = [NoRun EXCEPT !.fn = "avr_detach", !.status = "returned",
                            !.irw = <<IR_BYPASS>>,
                            !.halt_before = pdi.halt_reason]
    /\ shifts' = << >>
    /\ UNCHANGED <<pdi, target, refuted, lpcVars>>

-----------------------------------------------------------------------------
(* lpc43xx.c : constants *)

LPC43xx_CHIPID == W(16388, 12800)                   \* 0x40043200
LPC43xx_CHIPID_FAMILY_MASK == W(4095, 65535)        \* 0x0fffffff
LPC43xx_CHIPID_FAMILY_CODE == W(2310, 43)           \* 0x0906002b
LPC43xx_CHIPID_CHIP_MASK == W(61440, 0)             \* 0xf0000000
LPC43xx_CHIPID_CHIP_SHIFT == 28
LPC43xx_CHIPID_CORE_TYPE_MASK == W(65295, 65520)    \* 0xff0ffff0

IAP_ENTRYPOINT_LOCATION == W(4160, 256)             \* 0x10400100

LPC43xx_ETBAHB_SRAM_BASE == W(8192, 49152)          \* 0x2000c000
LPC43xx_ETBAHB_SRAM_SIZE == W(0, 16384)             \* 16 * 1024

LPC43xx_CGU_CPU_CLK == W(16389, 108)                \* 0x40050000 + 0x06C
LPC43xx_CGU_BASE_CLK_AUTOBLOCK == W(0, 2048)        \* 1 << 11
LPC43xx_CGU_BASE_CLK_SEL_IRC == W(256, 0)           \* 1 << 24

LPC43xx_AIRCR == W(57344, 60684)                    \* 0xe000ed0c
LPC43xx_AIRCR_RESET == W(1530, 4)                   \* 0x05fA0004

LPC43xx_WDT_MODE == W(16392, 0)                     \* 0x40080000
LPC43xx_WDT_CNT == W(16392, 4)                      \* 0x40080004
LPC43xx_WDT_FEED == W(16392, 8)                     \* 0x40080008
LPC43xx_WDT_PERIOD_MAX == W(255, 65535)             \* 0xffffff
LPC43xx_WDT_PROTECT == W(0, 16)                     \* 1 << 4

IAP_RAM_SIZE == LPC43xx_ETBAHB_SRAM_SIZE
IAP_RAM_BASE == LPC43xx_ETBAHB_SRAM_BASE
IAP_PGM_CHUNKSIZE == 4096

FLASH_NUM_BANK == 2
FLASH_NUM_SECTOR == 15

\* lpc_common.h: the status a ROM call returns on success, and the clock
IAP_STATUS_CMD_SUCCESS == 0
CPU_CLK_KHZ == 12000

\* the entries of lpc43xx_cmd_list
lpc43xx_cmd_list == <<"reset", "mkboot">>

CORTEXM_TOPT_INHIBIT_NRST == "CORTEXM_TOPT_INHIBIT_NRST"

\* ROM calls return a status in 0..MaxStatus
MaxStatus == 1
IapStatus == 0..MaxStatus

-----------------------------------------------------------------------------
(* lpc43xx.c : accesses to the target *)

Zero32 == W(0, 0)

Event(op, addr, val, cmd, args, status) ==
    [op |-> op, addr |-> addr, val |-> val, cmd |-> cmd, args |-> args,
     status |-> status]

\* target_mem_read32() that read val, target_mem_write32() of val
Read32(addr, val) == Event("read32", addr, val, "", << >>, 0)
Write32(addr, val) == Event("write32", addr, val, "", << >>, 0)
\* lpc_iap_call() of cmd with args, which returned status
IapCall(cmd, args, status) == Event("iap", Zero32, Zero32, cmd, args, status)
\* lpc_flash_erase(f, addr, len), which returned status
SharedErase(args, status) == Event("lpc_flash_erase", Zero32, Zero32, "", args, status)

IsIap(e) == e.op = "iap"
IsWrite(e) == e.op = "write32"
IsRead(e) == e.op = "read32"

-----------------------------------------------------------------------------
(* lpc43xx.c : probe and layout *)

RamRegion(start, len) == [start |-> start, length |-> len]

\* lpc43xx_add_flash(): the descriptor lpc_add_flash() hands back, filled in
lpc43xx_add_flash(iap_entry, bank, base_sector, addr, len, erasesize) ==
    [start |-> addr, length |-> len, erase |-> "lpc43xx_flash_erase",
     blocksize |-> erasesize, buf_size |-> IAP_PGM_CHUNKSIZE, bank |-> bank,
     base_sector |-> base_sector, iap_entry |-> iap_entry,
     iap_ram |-> IAP_RAM_BASE,
     iap_msp |-> Add32(IAP_RAM_BASE, IAP_RAM_SIZE),
     wdt_kick |-> "lpc43xx_wdt_kick"]

\* lpc43xx_detect_flash() whose coarse regions begin at sector 7
lpc43xx_detect_flash_m(d, iap_entry) ==
    [d EXCEPT
       !.ram = @ \o << RamRegion(W(0, 0), W(6656, 0)),
                       RamRegion(W(6664, 0), W(248, 0)),
                       RamRegion(W(6920, 0), W(58616, 0)) >>,
       !.flash = @ \o
          << lpc43xx_add_flash(iap_entry, 0, 0, W(6656, 0), W(1, 0), W(0, 8192)),
             lpc43xx_add_flash(iap_entry, 0, 7, W(6657, 0), W(7, 0), W(1, 0)),
             lpc43xx_add_flash(iap_entry, 1, 0, W(6912, 0), W(1, 0), W(0, 8192)),
             lpc43xx_add_flash(iap_entry, 1, 7, W(6913, 0), W(7, 0), W(1, 0)) >>,
       !.commands = Append(@, [name |-> "LPC43xx", list |-> lpc43xx_cmd_list]),
       !.target_options = @ \cup {CORTEXM_TOPT_INHIBIT_NRST}]

\* lpc43xx_detect_flash() on descriptor d, IAP_ENTRYPOINT_LOCATION reading
\* iap_entry
lpc43xx_detect_flash(d, iap_entry) ==
    [d EXCEPT
       !.ram = @ \o << RamRegion(W(0, 0), W(6656, 0)),          \* 0, 0x1A000000
                       RamRegion(W(6664, 0), W(248, 0)),        \* 0x1A080000, 0xF80000
                       RamRegion(W(6920, 0), W(58616, 0)) >>,   \* 0x1B080000, 0xE4F80000
       !.flash = @ \o
          << lpc43xx_add_flash(iap_entry, 0, 0, W(6656, 0), W(1, 0), W(0, 8192)),
             lpc43xx_add_flash(iap_entry, 0, 8, W(6657, 0), W(7, 0), W(1, 0)),
             lpc43xx_add_flash(iap_entry, 1, 0, W(6912, 0), W(1, 0), W(0, 8192)),
             lpc43xx_add_flash(iap_entry, 1, 8, W(6913, 0), W(7, 0), W(1, 0)) >>,
       !.commands = Append(@, [name |-> "LPC43xx", list |-> lpc43xx_cmd_list]),
       !.target_options = @ \cup {CORTEXM_TOPT_INHIBIT_NRST}]

lpc43xx_detect_flashless(d) == d

\* the family test without the mask
FamilyMatches_m(chipid) == chipid = LPC43xx_CHIPID_FAMILY_CODE

\* the family field of the chip ID matches
FamilyMatches(chipid) ==
    And32(chipid, LPC43xx_CHIPID_FAMILY_MASK) = LPC43xx_CHIPID_FAMILY_CODE

ChipCode(chipid) ==
    Shr32(And32(chipid, LPC43xx_CHIPID_CHIP_MASK), LPC43xx_CHIPID_CHIP_SHIFT)

\* only chip code 4 taken as having flash
HasFlash_m(chip_code) == chip_code = 4

\* chip codes of the parts with on-chip flash, and of the flash-less parts
HasFlash(chip_code) == chip_code = 4 \/ chip_code = 7
Flashless(chip_code) == chip_code = 5 \/ chip_code = 6

\* lpc43xx_probe() on descriptor d, with the chip-ID register reading chipid
\* and the IAP entry location reading iap_entry: what it returns, the
\* descriptor it leaves and the accesses it made
lpc43xx_probe(d, chipid, iap_entry) ==
    LET id_read == << Read32(LPC43xx_CHIPID, chipid) >>
        chip_code == ChipCode(chipid)
        named == [d EXCEPT !.driver = "LPC43xx",
                           !.mass_erase = "lpc43xx_mass_erase"]
    IN  IF ~FamilyMatches(chipid)
        THEN [ret |-> FALSE, t |-> d, io |-> id_read]
        ELSE IF HasFlash(chip_code)
        THEN [ret |-> TRUE, t |-> lpc43xx_detect_flash(named, iap_entry),
              io |-> id_read \o << Read32(IAP_ENTRYPOINT_LOCATION, iap_entry) >>]
        ELSE IF Flashless(chip_code)
        THEN [ret |-> TRUE, t |-> lpc43xx_detect_flashless(named), io |-> id_read]
        ELSE [ret |-> FALSE, t |-> named, io |-> id_read]

-----------------------------------------------------------------------------
(* lpc43xx.c : the IAP flash driver *)

\* lpc43xx_wdt_set_period() that does not test the protect bit
lpc43xx_wdt_set_period_m(wdt_mode) ==
    << Read32(LPC43xx_WDT_MODE, wdt_mode) >> \o
    (IF wdt_mode # Zero32
     THEN << Write32(LPC43xx_WDT_CNT, LPC43xx_WDT_PERIOD_MAX) >>
     ELSE << >>)

\* lpc43xx_wdt_set_period(), the watchdog mode register reading wdt_mode
lpc43xx_wdt_set_period(wdt_mode) ==
    << Read32(LPC43xx_WDT_MODE, wdt_mode) >> \o
    (IF wdt_mode # Zero32 /\ And32(wdt_mode, LPC43xx_WDT_PROTECT) = Zero32
     THEN << Write32(LPC43xx_WDT_CNT, LPC43xx_WDT_PERIOD_MAX) >>
     ELSE << >>)

\* lpc43xx_wdt_kick()
lpc43xx_wdt_kick(wdt_mode) ==
    << Read32(LPC43xx_WDT_MODE, wdt_mode) >> \o
    (IF wdt_mode # Zero32
     THEN << Write32(LPC43xx_WDT_FEED, W(0, 170)), Write32(LPC43xx_WDT_FEED, W(0, 255)) >>
     ELSE << >>)

\* lpc43xx_flash_init() that calls INIT before it forces the clock
lpc43xx_flash_init_m(wdt_mode, init_status) ==
    [ret |-> init_status = IAP_STATUS_CMD_SUCCESS,
     io |-> lpc43xx_wdt_set_period(wdt_mode) \o
            << IapCall("IAP_CMD_INIT", << >>, init_status),
               Write32(LPC43xx_CGU_CPU_CLK,
                       Or32(LPC43xx_CGU_BASE_CLK_AUTOBLOCK, LPC43xx_CGU_BASE_CLK_SEL_IRC)) >>]

\* lpc43xx_flash_init(), the ROM's INIT call returning init_status
lpc43xx_flash_init(wdt_mode, init_status) ==
    [ret |-> init_status = IAP_STATUS_CMD_SUCCESS,
     io |-> lpc43xx_wdt_set_period(wdt_mode) \o
            << Write32(LPC43xx_CGU_CPU_CLK,
                       Or32(LPC43xx_CGU_BASE_CLK_AUTOBLOCK, LPC43xx_CGU_BASE_CLK_SEL_IRC)),
               IapCall("IAP_CMD_INIT", << >>, init_status) >>]

\* the loop with its two calls joined by |, so that ERASE is issued whatever
\* PREPARE returned
RECURSIVE EraseBanks_m(_, _)
EraseBanks_m(bank, st) ==
    IF ~(bank < FLASH_NUM_BANK)
    THEN [ret |-> TRUE, io |-> << >>]
    ELSE LET prepare == IapCall("IAP_CMD_PREPARE",
                                <<0, FLASH_NUM_SECTOR - 1, bank>>, st[2 * bank + 2])
             erase == IapCall("IAP_CMD_ERASE",
                              <<0, FLASH_NUM_SECTOR - 1, CPU_CLK_KHZ, bank>>,
                              st[2 * bank + 3])
             rest == EraseBanks_m(bank + 1, st)
         IN  IF prepare.status # 0 \/ erase.status # 0
             THEN [ret |-> FALSE, io |-> <<prepare, erase>>]
             ELSE [ret |-> rest.ret, io |-> <<prepare, erase>> \o rest.io]

\* the loop of lpc43xx_mass_erase() from `bank` on; st[2 * bank + 2] and
\* st[2 * bank + 3] are what the ROM returns for that bank's two calls
RECURSIVE EraseBanks(_, _)
EraseBanks(bank, st) ==
    IF ~(bank < FLASH_NUM_BANK)
    THEN [ret |-> TRUE, io |-> << >>]
    ELSE LET prepare == IapCall("IAP_CMD_PREPARE",
                                <<0, FLASH_NUM_SECTOR - 1, bank>>, st[2 * bank + 2])
             erase == IapCall("IAP_CMD_ERASE",
                              <<0, FLASH_NUM_SECTOR - 1, CPU_CLK_KHZ, bank>>,
                              st[2 * bank + 3])
             rest == EraseBanks(bank + 1, st)
         IN  IF prepare.status # 0
             THEN [ret |-> FALSE, io |-> <<prepare>>]
             ELSE IF erase.status # 0
             THEN [ret |-> FALSE, io |-> <<prepare, erase>>]
             ELSE [ret |-> rest.ret, io |-> <<prepare, erase>> \o rest.io]

\* lpc43xx_mass_erase() on a target with flash; st[1] is the status of the
\* INIT call of lpc43xx_flash_init(), whose result is not looked at
lpc43xx_mass_erase(wdt_mode, st) ==
    LET init == lpc43xx_flash_init(wdt_mode, st[1])
        banks == EraseBanks(0, st)
    IN  [ret |-> banks.ret, io |-> init.io \o banks.io]

\* lpc43xx_flash_erase() that goes on to lpc_flash_erase() whatever
\* lpc43xx_flash_init() returned
lpc43xx_flash_erase_m(f, addr, len, wdt_mode, init_status, shared) ==
    LET init == lpc43xx_flash_init(wdt_mode, init_status)
    IN  [ret |-> shared,
         io |-> init.io \o << SharedErase(<<f.bank, f.base_sector, addr, len>>, shared) >>]

\* lpc43xx_flash_erase(); `shared` is what lpc_flash_erase() returns
lpc43xx_flash_erase(f, addr, len, wdt_mode, init_status, shared) ==
    LET init == lpc43xx_flash_init(wdt_mode, init_status)
    IN  IF ~init.ret
        THEN [ret |-> -1, io |-> init.io]
        ELSE [ret |-> shared,
              io |-> init.io \o << SharedErase(<<f.bank, f.base_sector, addr, len>>, shared) >>]

\* lpc43xx_cmd_reset()
lpc43xx_cmd_reset == [ret |-> TRUE, io |-> << Write32(LPC43xx_AIRCR, LPC43xx_AIRCR_RESET) >>]

-----------------------------------------------------------------------------
(* strtoul(nptr, NULL, 0) on a string given as its characters *)

DigitChars ==
    << "0", "1", "2", "3", "4", "5", "6", "7", "8", "9", "a", "b", "c", "d",
       "e", "f", "g", "h", "i", "j", "k", "l", "m", "n", "o", "p", "q", "r",
       "s", "t", "u", "v", "w", "x", "y", "z" >>

\* the value of c as a digit, 36 when it is none
DigitOf(c) ==
    IF \E i \in 1..Len(DigitChars) : DigitChars[i] = c
    THEN (CHOOSE i \in 1..Len(DigitChars) : DigitChars[i] = c) - 1
    ELSE 36

RECURSIVE SkipSpace(_)
SkipSpace(str) ==
    IF str # << >> /\ Head(str) \in {" ", "\t", "\n"} THEN SkipSpace(Tail(str)) ELSE str

\* the value of the longest prefix of str made of digits of `base`
RECURSIVE Digits(_, _, _)
Digits(str, base, acc) ==
    IF str # << >> /\ DigitOf(Head(str)) < base
    THEN Digits(Tail(str), base, acc * base + DigitOf(Head(str)))
    ELSE acc

\* -w modulo 2^32
Neg32(w) ==
    IF w = Zero32 THEN Zero32
    ELSE W((65535 - w.hi + (IF w.lo = 0 THEN 1 ELSE 0)) % 65536, (65536 - w.lo) % 65536)

\* strtoul(str, NULL, 0) converted to uint32_t (the strings offered are too
\* short to overflow an unsigned long)
strtoul(str) ==
    LET s1 == SkipSpace(str)
        neg == s1 # << >> /\ Head(s1) = "-"
        s2 == IF s1 # << >> /\ Head(s1) \in {"-", "+"} THEN Tail(s1) ELSE s1
        hex == Len(s2) >= 3 /\ s2[1] = "0" /\ s2[2] = "x" /\ DigitOf(s2[3]) < 16
        base == IF hex THEN 16 ELSE IF s2 # << >> /\ s2[1] = "0" THEN 8 ELSE 10
        s3 == IF hex THEN SubSeq(s2, 3, Len(s2)) ELSE s2
        mag == Digits(s3, base, 0)
        val == W(mag \div 65536, mag % 65536)
    IN  IF neg THEN Neg32(val) ELSE val

\* lpc43xx_cmd_mkboot(t, argc, argv); st[1] is the status of INIT, st[2]
\* that of SET_ACTIVE_BANK.  argv[i] of the source is argv[i + 1] here.
lpc43xx_cmd_mkboot(argc, argv, wdt_mode, st) ==
    IF argc # 2
    THEN [ret |-> FALSE, io |-> << >>, out |-> "Expected bank argument 0 or 1.\n"]
    ELSE LET bank == strtoul(argv[2])
             init == lpc43xx_flash_init(wdt_mode, st[1])
             set == IapCall("IAP_CMD_SET_ACTIVE_BANK", <<bank.lo, CPU_CLK_KHZ>>, st[2])
         IN  IF bank.hi > 0 \/ bank.lo > 1
             THEN [ret |-> FALSE, io |-> << >>,
                   out |-> "Unexpected bank number, should be 0 or 1.\n"]
             ELSE IF set.status # 0
             THEN [ret |-> FALSE, io |-> init.io \o <<set>>,
                   out |-> "Set bootable failed.\n"]
             ELSE [ret |-> TRUE, io |-> init.io \o <<set>>,
                   out |-> "Set bootable OK.\n"]

-----------------------------------------------------------------------------
(* lpc43xx.c : state and actions *)

\* what the chip-ID register is made to read: every chip code, under the
\* family code and under two values that differ from it in one field
ChipIds ==
    { W(chip_code * 4096 + fam[1], fam[2]) :
        chip_code \in 0..15, fam \in {<<2310, 43>>, <<2310, 44>>, <<2054, 43>>} }

\* what IAP_ENTRYPOINT_LOCATION is made to read
IapEntries == {W(4160, 305), W(4160, 517)}

\* what the watchdog mode register is made to read: off, on, on with reset
\* enabled, the protect bit alone, and on with the protect bit
WdtModes == {W(0, 0), W(0, 1), W(0, 3), W(0, 16), W(0, 17)}

\* arguments typed after "mkboot"
ArgStrings ==
    { <<"0">>, <<"1">>, <<"2">>, <<"-", "1">>, <<"a", "b", "c">>, <<"0", "x", "1">> }

\* a target as the Cortex-M probe hands it to lpc43xx_probe()
FreshTargets ==
    { [driver |-> "ARM Cortex-M", mass_erase |-> "none", ram |-> << >>,
       flash |-> << >>,
       commands |-> << [name |-> "ARM Cortex-M", list |-> <<"vector_catch">>] >>,
       target_options |-> opts, cpuid |-> W(16655, 49729)] :
        opts \in {{}, {"TOPT_FLAVOUR_V7MF"}} }

NoCall == [fn |-> "none", args |-> << >>, status |-> "returned", ret |-> FALSE, out |-> ""]

Called(fn, args, ret, out) ==
    [fn |-> fn, args |-> args, status |-> "returned", ret |-> ret, out |-> out]

InitLpc ==
    [t |-> CHOOSE d \in FreshTargets : d.target_options = {}, call |-> NoCall]

\* the statuses the ROM returns to the first n calls of a handler.  A
\* handler stops at the first failure after its INIT call (the first), so
\* the answers past that failure are never asked for and are left at 0.
RomAnswers(n) ==
    { st \in [1..n -> IapStatus] :
        \A i \in 2..n : \A j \in (i + 1)..n : st[i] # 0 => st[j] = 0 }

\* a command of this name is in a registered command table
Registered(name) ==
    \E i \in 1..Len(t.commands) :
        \E j \in 1..Len(t.commands[i].list) : t.commands[i].list[j] = name

\* the scan finds a Cortex-M core and creates its target
target_new ==
    /\ \E d \in FreshTargets : t' = d
    /\ t_before' = t
    /\ call' = Called("target_new", << >>, TRUE, "")
    /\ io' = << >>
    /\ UNCHANGED avrVars

Call_lpc43xx_probe ==
    /\ t \in FreshTargets
    /\ \E chipid \in ChipIds, iap_entry \in IapEntries :
         LET p == lpc43xx_probe(t, chipid, iap_entry)
         IN  /\ t' = p.t
             /\ io' = p.io
             /\ call' = Called("lpc43xx_probe", <<chipid>>, p.ret, "")
    /\ t_before' = t
    /\ UNCHANGED avrVars

\* t->mass_erase(t).  On a target without a flash region t->flash is NULL and
\* lpc43xx_flash_init() dereferences it: the behaviour is undefined.
Call_lpc43xx_mass_erase ==
    /\ t.mass_erase = "lpc43xx_mass_erase"
    /\ IF t.flash = << >>
       THEN /\ \E ret \in BOOLEAN :
                 call' = [Called("lpc43xx_mass_erase", << >>, ret, "")
                            EXCEPT !.status = "undefined"]
            /\ io' = << >>
       ELSE \E wdt_mode \in WdtModes, st \in RomAnswers(1 + 2 * FLASH_NUM_BANK) :
              LET m == lpc43xx_mass_erase(wdt_mode, st)
              IN  /\ call' = Called("lpc43xx_mass_erase", << >>, m.ret, "")
                  /\ io' = m.io
    /\ t_before' = t
    /\ UNCHANGED <<t, avrVars>>

Call_lpc43xx_flash_erase ==
    /\ t.flash # << >>
    /\ \E i \in 1..Len(t.flash), wdt_mode \in WdtModes,
          init_status \in IapStatus :
        \E shared \in IF init_status = IAP_STATUS_CMD_SUCCESS THEN {0, -1} ELSE {0} :
         LET f == t.flash[i]
             len == f.blocksize
             e == lpc43xx_flash_erase(f, f.start, len, wdt_mode, init_status, shared)
         IN  /\ call' = Called("lpc43xx_flash_erase", <<i, f.start, len>>, e.ret, "")
             /\ io' = e.io
    /\ t_before' = t
    /\ UNCHANGED <<t, avrVars>>

Call_lpc43xx_wdt_kick ==
    /\ t.flash # << >>
    /\ \E wdt_mode \in WdtModes :
         /\ call' = Called("lpc43xx_wdt_kick", << >>, TRUE, "")
         /\ io' = lpc43xx_wdt_kick(wdt_mode)
    /\ t_before' = t
    /\ UNCHANGED <<t, avrVars>>

Call_lpc43xx_cmd_reset ==
    /\ Registered("reset")
    /\ call' = Called("lpc43xx_cmd_reset", << >>, lpc43xx_cmd_reset.ret, "")
    /\ io' = lpc43xx_cmd_reset.io
    /\ t_before' = t
    /\ UNCHANGED <<t, avrVars>>

\* the command line: argv[0] and argc - 1 arguments
ArgVectors ==
    { <<<<"m", "k", "b", "o", "o", "t">>>> \o rest :
        rest \in {<< >>} \cup {<<a>> : a \in ArgStrings}
                 \cup {<<a, <<"0">>>> : a \in {<<"0">>, <<"2">>}} }

\* the command is turned down before it touches the target
Refused(argv) == lpc43xx_cmd_mkboot(Len(argv), argv, Zero32, <<0, 0>>).io = << >>

Call_lpc43xx_cmd_mkboot ==
    /\ Registered("mkboot")
    /\ \E argv \in ArgVectors :
         \E wdt_mode \in IF Refused(argv) THEN {Zero32} ELSE WdtModes,
            st \in IF Refused(argv) THEN {<<0, 0>>} ELSE [1..2 -> IapStatus] :
           LET m == lpc43xx_cmd_mkboot(Len(argv), argv, wdt_mode, st)
           IN  /\ call' = Called("lpc43xx_cmd_mkboot", argv, m.ret, m.out)
               /\ io' = m.io
    /\ t_before' = t
    /\ UNCHANGED <<t, avrVars>>

-----------------------------------------------------------------------------
(* Specifications *)

Init ==
    /\ pdi = InitAvr.pdi
    /\ target = InitAvr.target
    /\ ir = IR_BYPASS
    /\ run = InitAvr.run
    /\ shifts = << >>
    /\ refuted = {}
    /\ t = InitLpc.t
    /\ t_before = InitLpc.t
    /\ call = InitLpc.call
    /\ io = << >>

\* the register accessors called on their own
NextReg ==
    \/ avr_jtag_pdi_handler
    \/ Call_avr_pdi_reg_write
    \/ Call_avr_pdi_reg_read
    \/ avr_jtag_shift_dr

SpecReg == Init /\ [][NextReg]_vars

\* the target callbacks of the PDI driver
NextAvr ==
    \/ avr_jtag_pdi_handler
    \/ avr_attach
    \/ avr_detach
    \/ Call_avr_reset
    \/ Call_avr_halt_request
    \/ avr_halt_poll
    \/ avr_jtag_shift_dr

SpecAvr == Init /\ [][NextAvr]_vars

\* the LPC43xx driver
NextLpc ==
    \/ target_new
    \/ Call_lpc43xx_probe
    \/ Call_lpc43xx_mass_erase
    \/ Call_lpc43xx_flash_erase
    \/ Call_lpc43xx_wdt_kick
    \/ Call_lpc43xx_cmd_reset
    \/ Call_lpc43xx_cmd_mkboot

SpecLpc == Init /\ [][NextLpc]_vars

-----------------------------------------------------------------------------
(* Properties of the register accessors (SpecReg) *)

\* a register accessor called on its own has returned
AccessReturned == run.fn \in DirectFns /\ run.status = "returned"

\* C1: a transport whose every transaction reports success and captures the
\* empty marker makes register_write return true and register_read return
\* the captured byte, for reg in 0..15, under one and the same convention
\* for what avr_jtag_shift_dr() returns on success: some convention is left
\* under which no access served that way has failed.
C1_OneConventionServesBoth == \E c \in BOOLEAN : c \notin refuted

\* C3: for reg >= 16, register_write returns false and register_read returns
\* 0xFF, and the call issues no transport transaction.
C3_OutOfRangeRejected ==
    (run.fn \in DirectFns /\ run.reg >= 16) =>
        /\ run.status = "returned"
        /\ shifts = << >>
        /\ run.fn = "avr_pdi_reg_write" => run.ret = FALSE
        /\ run.fn = "avr_pdi_reg_read" => run.ret = 255

C3_Witness ==
    /\ run.fn = "avr_pdi_reg_read" /\ run.reg = 16 /\ run.status = "returned"
    /\ run.ret = 255 /\ shifts = << >>

\* the access came back as a failure: false from register_write, 0xFF from
\* register_read
CameBackFailed ==
    /\ run.fn = "avr_pdi_reg_write" => run.ret = FALSE
    /\ run.fn = "avr_pdi_reg_read" => run.ret = 255

\* C4 as claimed: for reg in 0..15, a captured byte other than 0xEB on any
\* phase of the exchange makes register_write return false and
\* register_read return 0xFF.
C4_AnyPhase ==
    (AccessReturned /\ run.reg < 16
       /\ \E i \in 1..Len(shifts) : shifts[i].dr_out # 235)
    => CameBackFailed

\* C4 as amended: for reg in 0..15, a captured byte other than 0xEB on the
\* command phase of either access, or on the value phase of register_write,
\* makes register_write return false and register_read return 0xFF; the
\* byte captured on the second phase of register_read is the register value
\* and is what the call returns once that transaction returned true.
C4_MarkerPhases ==
    (AccessReturned /\ run.reg < 16) =>
        /\ shifts[1].dr_out # 235 => CameBackFailed
        /\ (run.fn = "avr_pdi_reg_write" /\ Len(shifts) = 2 /\ shifts[2].dr_out # 235)
              => run.ret = FALSE
        /\ (run.fn = "avr_pdi_reg_read" /\ Len(shifts) = 2 /\ shifts[2].rc)
              => run.ret = shifts[2].dr_out

C4_Witness ==
    /\ AccessReturned /\ run.fn = "avr_pdi_reg_write" /\ run.reg = 15
    /\ Len(shifts) = 2 /\ ~shifts[2].rc /\ shifts[2].dr_out = 16
    /\ run.ret = FALSE

-----------------------------------------------------------------------------
(* Properties of reset and halt_request (SpecAvr) *)

\* C2: halt_request completes, recording halted-by-request, only when its
\* accesses answer: write R4=1 true, R3 0x10, write RESET=0 true, R3 0x14,
\* R3 0x04; with any other answer it raises, and halt_reason is the value it
\* had before the call, as it is at every point inside the call.
C2_HaltRequestExact ==
    (run.fn = "avr_halt_request") =>
        /\ run.status = "running" => pdi.halt_reason = run.halt_before
        /\ (run.status # "running" /\ run.resp = <<TRUE, 16, TRUE, 20, 4>>) =>
              run.status = "returned" /\ pdi.halt_reason = TARGET_HALT_REQUEST
        /\ (run.status # "running" /\ run.resp # <<TRUE, 16, TRUE, 20, 4>>) =>
              run.status = "raised" /\ pdi.halt_reason = run.halt_before

\* a halt request that raised at its last read, after an earlier one had
\* succeeded
C2_Witness ==
    /\ run.fn = "avr_halt_request" /\ run.status = "raised"
    /\ run.resp = <<TRUE, 16, TRUE, 20, 255>>
    /\ run.halt_before = TARGET_HALT_REQUEST
    /\ pdi.halt_reason = TARGET_HALT_REQUEST

\* the bytes shifted in by the transactions issued so far
ShiftedIn == [i \in 1..Len(shifts) |-> shifts[i].dr_in]

\* C10: reset writes 0x59 to RESET and then reads STATUS, once each; it
\* returns exactly when the write returned true and STATUS read 0x00 and
\* raises otherwise, and STATUS is not read after a failed write.
C10_ResetSequence ==
    (run.fn = "avr_reset") =>
        /\ ShiftedIn = SubSeq(<<193, 89, 128, 128>>, 1, Len(shifts))
        /\ run.status # "running" =>
              /\ run.status = (IF run.resp = <<TRUE, 0>> THEN "returned" ELSE "raised")
              /\ run.resp[1] = FALSE => run.resp = <<FALSE>> /\ Len(shifts) <= 2

C10_Witness ==
    /\ run.fn = "avr_reset" /\ run.status = "returned"
    /\ run.resp = <<TRUE, 0>> /\ Len(shifts) = 4

-----------------------------------------------------------------------------
(* Properties of the PDI target callbacks (SpecAvr) *)

\* the calls that issue register accesses or only read the context
NoIrCalls == {"avr_reset", "avr_halt_request", "avr_halt_poll"}

\* C11: every step leaves the instruction register as the claim says: attach
\* leaves PDI, detach leaves BYPASS, an initialize that passed its ID check
\* leaves BYPASS, written before target_new() (so also when target_new()
\* then fails), and reset, halt_request and halt_poll, their fatal exits
\* included, write nothing and leave it as it was.  So, once initialize has
\* bound a target, the register holds PDI exactly when the most recent of
\* initialize/attach/detach was attach and BYPASS otherwise.
C11_IrFollowsAttach ==
    [][ /\ run'.fn = "avr_attach" => ir' = IR_PDI /\ run'.irw = <<IR_PDI>>
        /\ run'.fn = "avr_detach" => ir' = IR_BYPASS /\ run'.irw = <<IR_BYPASS>>
        /\ (run'.fn = "avr_pdi_init" /\ pdi'.mem \in {"owned", "leaked"}) =>
              ir' = IR_BYPASS /\ run'.irw = <<IR_BYPASS>>
        /\ target'.made => pdi'.mem = "owned"
        /\ run'.fn \in NoIrCalls => ir' = ir /\ run'.irw = << >>
      ]_vars

\* a halt request that took its fatal exit while the device was attached
C11_Witness ==
    /\ run.fn = "avr_halt_request" /\ run.status = "raised"
    /\ ir = IR_PDI /\ target.made

\* C12: halt_reason changes only where a halt_request returns, and then to
\* halted-by-request; halt_poll returns the stored halt_reason, issues no
\* transaction and changes nothing of the context, the target or the
\* instruction register; reset, attach and detach leave halt_reason as it
\* was; so once it is halted-by-request it stays so, and every later
\* halt_poll reports it.
C12_HaltReasonFrame ==
    [][ /\ pdi'.halt_reason # pdi.halt_reason =>
              /\ run'.fn = "avr_halt_request" /\ run'.status = "returned"
              /\ pdi'.halt_reason = TARGET_HALT_REQUEST
        /\ run'.fn = "avr_halt_poll" =>
              /\ run'.ret = pdi.halt_reason
              /\ shifts' = << >>
              /\ UNCHANGED <<pdi, target, ir>>
        /\ run'.fn \in {"avr_reset", "avr_attach", "avr_detach"} =>
              pdi'.halt_reason = pdi.halt_reason
        /\ pdi.halt_reason = TARGET_HALT_REQUEST =>
              pdi'.halt_reason = TARGET_HALT_REQUEST
      ]_vars

\* a poll that reports halted-by-request on a device since detached
C12_Witness ==
    /\ run.fn = "avr_halt_poll" /\ run.status = "returned"
    /\ run.ret = TARGET_HALT_REQUEST /\ ir = IR_BYPASS
    /\ shifts = << >>

\* bits 12..27 of an ID code are all zero
ZeroPart(idcode) == idcode.hi % 4096 = 0 /\ idcode.lo \div 4096 = 0

\* C13: initialize on an ID code whose part-number field is zero frees the
\* context and returns false, having written no instruction and made no
\* target; and a target exists only with a context, its own, whose
\* part-number field is not zero.
C13_IdCheck ==
    /\ (run.fn = "avr_pdi_init" /\ ZeroPart(pdi.idcode)) =>
          /\ pdi.mem = "freed"
          /\ run.ret = FALSE
          /\ run.irw = << >>
          /\ ~target.made
    /\ target.made =>
          /\ pdi.mem = "owned"
          /\ ~ZeroPart(pdi.idcode)
          /\ target.cpuid = pdi.idcode

\* ID code 0x0000003F turned down, the instruction register still as the
\* scan left it
C13_Witness ==
    /\ run.fn = "avr_pdi_init" /\ pdi.idcode = W(0, 63)
    /\ pdi.mem = "freed" /\ run.ret = FALSE /\ ir = IR_PDI

\* C14: when the ID check passes and target_new() hands out a target,
\* initialize installs the attach, detach, reset, halt_request and halt_poll
\* callbacks, makes the context the target's private data, and returns true
\* whether or not atxmega_probe() knows the part; when it does not,
\* halt_reason is running.
C14_InitBinds ==
    (run.fn = "avr_pdi_init" /\ ~ZeroPart(pdi.idcode) /\ pdi.mem # "leaked") =>
        /\ target.made
        /\ target.callbacks = {"attach", "detach", "reset", "halt_request", "halt_poll"}
        /\ target.priv /\ pdi.mem = "owned"
        /\ run.ret = TRUE
        /\ run.resp = <<FALSE>> => pdi.halt_reason = "TARGET_HALT_RUNNING"

\* a part atxmega_probe() does not know, bound all the same
C14_Witness ==
    /\ run.fn = "avr_pdi_init" /\ target.made /\ run.resp = <<FALSE>>
    /\ run.ret = TRUE /\ pdi.halt_reason = "TARGET_HALT_RUNNING"

\* the bytes halt_request shifts in when every access goes through: STCS R4
\* and 1, LDCS R3 twice, STCS RESET and 0, LDCS R3 twice, LDCS R3 twice
HaltRequestBytes == <<196, 1, 131, 131, 193, 0, 131, 131, 131, 131>>

\* the values the five accesses of halt_request must come back with
HaltRequestWants == <<TRUE, 16, TRUE, 20, 4>>

\* C16: halt_request issues write R4=1, read R3, write RESET=0, read R3,
\* read R3 in that order, each access only after every earlier one came
\* back with the value required of it, and none after one that did not; so
\* the RESET=0 write is issued only after the R4=1 write returned true and
\* R3 read 0x10.
C16_HaltRequestOrder ==
    (run.fn = "avr_halt_request") =>
        LET n == Len(run.resp)
        IN  /\ n <= 5
            /\ \A i \in 1..n : i < n => run.resp[i] = HaltRequestWants[i]
            /\ run.status = "running" =>
                  /\ n < 5
                  /\ \A i \in 1..n : run.resp[i] = HaltRequestWants[i]
                  /\ Len(shifts) \in {2 * n, 2 * n + 1}
                  /\ ShiftedIn = SubSeq(HaltRequestBytes, 1, Len(shifts))
            /\ run.status # "running" =>
                  /\ n >= 1
                  /\ Len(shifts) \in {2 * n - 1, 2 * n}
                  /\ ShiftedIn = SubSeq(HaltRequestBytes, 1, Len(shifts))
                  /\ run.status = "raised" <=> run.resp[n] # HaltRequestWants[n]
                  /\ run.status = "returned" => n = 5
            /\ (\E i \in 1..Len(shifts) : shifts[i].dr_in = 193) =>
                  n >= 2 /\ run.resp[1] = TRUE /\ run.resp[2] = 16

\* R3 read 0x14 where 0x10 was required: the call raised after four
\* transactions, RESET not written
C16_Witness ==
    /\ run.fn = "avr_halt_request" /\ run.status = "raised"
    /\ run.resp = <<TRUE, 20>> /\ Len(shifts) = 4
    /\ \A i \in 1..Len(shifts) : shifts[i].dr_in # 193

-----------------------------------------------------------------------------
(* Properties of the LPC43xx driver (SpecLpc) *)

\* the ROM calls of the last call, in order
RomCalls == SelectSeq(io, IsIap)
\* its memory-mapped writes
MemWrites == SelectSeq(io, IsWrite)

\* the arguments offered that spell the bank number 0 or 1
BankNumerals == { <<"0">>, <<"1">>, <<"0", "x", "1">> }

\* C5: mkboot returns false, with no ROM call and no memory-mapped write,
\* whenever it is not given exactly one argument or that argument is not
\* the bank number 0 or 1 (2, -1, a string that is no number).
C5_MkbootRejects ==
    (call.fn = "lpc43xx_cmd_mkboot"
       /\ ~(Len(call.args) = 2 /\ call.args[2] \in BankNumerals))
    => (call.ret = FALSE /\ io = << >>)

\* the four calls of a mass erase, in order
MassEraseOrder ==
    << [cmd |-> "IAP_CMD_PREPARE", args |-> <<0, 14, 0>>],
       [cmd |-> "IAP_CMD_ERASE", args |-> <<0, 14, CPU_CLK_KHZ, 0>>],
       [cmd |-> "IAP_CMD_PREPARE", args |-> <<0, 14, 1>>],
       [cmd |-> "IAP_CMD_ERASE", args |-> <<0, 14, CPU_CLK_KHZ, 1>>] >>

\* a mass erase of a target with flash has returned
MassErased == call.fn = "lpc43xx_mass_erase" /\ call.status = "returned"

\* C6: after the INIT call of flash_init, mass_erase on a target with flash
\* issues PREPARE(bank 0), ERASE(bank 0), PREPARE(bank 1), ERASE(bank 1)
\* over sectors 0..14 in that order, stops at the first of them that does
\* not return success and then returns false, and returns true only when
\* all four returned success.
C6_MassEraseOrder ==
    MassErased =>
        LET rom == RomCalls
            erase == Tail(rom)
            n == Len(erase)
        IN  /\ rom # << >> /\ rom[1].cmd = "IAP_CMD_INIT"
            /\ n \in 1..4
            /\ \A i \in 1..n :
                 /\ erase[i].cmd = MassEraseOrder[i].cmd
                 /\ erase[i].args = MassEraseOrder[i].args
                 /\ i < n => erase[i].status = 0
            /\ n < 4 => erase[n].status # 0
            /\ call.ret = (n = 4 /\ erase[4].status = 0)

\* bank 0 prepared and erased, PREPARE of bank 1 failed
C6_Witness ==
    /\ MassErased /\ call.ret = FALSE
    /\ Len(RomCalls) = 4
    /\ RomCalls[2].status = 0 /\ RomCalls[3].status = 0 /\ RomCalls[4].status # 0
    /\ RomCalls[4].cmd = "IAP_CMD_PREPARE" /\ RomCalls[4].args = <<0, 14, 1>>

\* the last call ran flash_init: it began by reading the watchdog mode
RanFlashInit ==
    /\ call.fn \in {"lpc43xx_mass_erase", "lpc43xx_flash_erase", "lpc43xx_cmd_mkboot"}
    /\ io # << >>

IsCntWrite(e) == e.op = "write32" /\ e.addr = W(16392, 4)

\* C7: flash_init writes the watchdog count register once, with 0xFFFFFF,
\* when the mode register reads non-zero with the protect bit (bit 4) clear,
\* and does not write it when the mode reads zero or has the protect bit set.
C7_WatchdogPeriod ==
    RanFlashInit =>
        LET mode == io[1].val
            open == mode # W(0, 0) /\ (mode.lo \div 16) % 2 = 0
            cnt == SelectSeq(io, IsCntWrite)
        IN  /\ io[1].op = "read32" /\ io[1].addr = W(16392, 0)
            /\ open => Len(cnt) = 1 /\ cnt[1].val = W(255, 65535)
            /\ ~open => cnt = << >>

C7_Witness ==
    /\ RanFlashInit /\ call.fn = "lpc43xx_flash_erase"
    /\ io[1].val = W(0, 3)
    /\ Len(SelectSeq(io, IsCntWrite)) = 1

\* the chip ID the last probe read, its family field and its chip code
ProbedId == call.args[1]
FamilyIsLpc43xx == ProbedId.hi % 4096 = 2310 /\ ProbedId.lo = 43
ProbedCode == ProbedId.hi \div 4096

\* C8: the probe returns true exactly when the family field of the chip ID
\* is the family code and the chip code is 4, 5, 6 or 7; on a family
\* mismatch it returns false having made the chip-ID read and nothing else.
C8_ProbeAccepts ==
    (call.fn = "lpc43xx_probe") =>
        /\ call.ret = (FamilyIsLpc43xx /\ ProbedCode \in {4, 5, 6, 7})
        /\ MemWrites = << >>
        /\ ~FamilyIsLpc43xx => io = << Read32(W(16388, 12800), ProbedId) >>

C8_Witness ==
    /\ call.fn = "lpc43xx_probe" /\ ~FamilyIsLpc43xx /\ ProbedCode = 4
    /\ call.ret = FALSE /\ Len(io) = 1

\* the layout a flash-bearing part gets: bank, base sector, start, length,
\* block size of the four flash regions
FlashLayout ==
    << <<0, 0, W(6656, 0), W(1, 0), W(0, 8192)>>,
       <<0, 8, W(6657, 0), W(7, 0), W(1, 0)>>,
       <<1, 0, W(6912, 0), W(1, 0), W(0, 8192)>>,
       <<1, 8, W(6913, 0), W(7, 0), W(1, 0)>> >>

\* C9: with a matching family, a probe reading chip code 7 leaves the target
\* as a probe reading chip code 4 leaves it from the same start (the four
\* flash regions with the IAP entry read, three RAM regions, the command
\* table, pin reset inhibited); chip codes 5 and 6 register no region.
C9_SameLayout ==
    (call.fn = "lpc43xx_probe" /\ FamilyIsLpc43xx) =>
        /\ ProbedCode = 7 =>
              /\ Len(io) = 2
              /\ t = lpc43xx_probe(t_before, W(4 * 4096 + 2310, 43), io[2].val).t
              /\ Len(t.ram) = Len(t_before.ram) + 3
              /\ [i \in 1..Len(t.flash) |->
                    <<t.flash[i].bank, t.flash[i].base_sector, t.flash[i].start,
                      t.flash[i].length, t.flash[i].blocksize>>] = FlashLayout
              /\ \A i \in 1..Len(t.flash) : t.flash[i].iap_entry = io[2].val
              /\ t.commands = Append(t_before.commands,
                                     [name |-> "LPC43xx", list |-> <<"reset", "mkboot">>])
              /\ t.target_options =
                    t_before.target_options \cup {"CORTEXM_TOPT_INHIBIT_NRST"}
        /\ ProbedCode \in {5, 6} =>
              t.ram = t_before.ram /\ t.flash = t_before.flash

C9_Witness ==
    /\ call.fn = "lpc43xx_probe" /\ FamilyIsLpc43xx /\ ProbedCode = 7
    /\ call.ret = TRUE /\ Len(t.flash) = 4
    /\ "TOPT_FLAVOUR_V7MF" \in t_before.target_options

\* the calls of the shared erase primitive made by the last call
IsSharedErase(e) == e.op = "lpc_flash_erase"
SharedErases == SelectSeq(io, IsSharedErase)

\* C15: erase(region, addr, len) runs flash_init first; when its INIT call
\* does not return success, erase returns -1 and neither the shared erase
\* primitive nor any further ROM call follows; otherwise the shared erase
\* primitive is called once, last, for the same region, address and length,
\* and erase returns what it returned.
C15_EraseDelegates ==
    (call.fn = "lpc43xx_flash_erase") =>
        LET f == t.flash[call.args[1]]
        IN  /\ RomCalls # << >> /\ RomCalls[1].cmd = "IAP_CMD_INIT"
            /\ Len(RomCalls) = 1
            /\ RomCalls[1].status # 0 =>
                  call.ret = -1 /\ SharedErases = << >>
            /\ RomCalls[1].status = 0 =>
                  /\ Len(SharedErases) = 1
                  /\ io[Len(io)] = SharedErases[1]
                  /\ SharedErases[1].args =
                        <<f.bank, f.base_sector, call.args[2], call.args[3]>>
                  /\ call.ret = SharedErases[1].status

\* the erase of a region of bank 1 given up at a failed INIT
C15_Witness ==
    /\ call.fn = "lpc43xx_flash_erase" /\ t.flash[call.args[1]].bank = 1
    /\ RomCalls[1].status # 0 /\ call.ret = -1 /\ SharedErases = << >>

\* accesses to the watchdog registers, the write to the core clock register,
\* the INIT call
IsWdtAccess(e) == e.op \in {"read32", "write32"} /\ e.addr.hi = 16392
IsClkWrite(e) == e.op = "write32" /\ e.addr = W(16389, 108)
IsInitCall(e) == e.op = "iap" /\ e.cmd = "IAP_CMD_INIT"

\* where the last call wrote the core clock register
ClkWriteAt == CHOOSE k \in 1..Len(io) : IsClkWrite(io[k])

\* C17: flash_init reads the watchdog mode (and writes the count where that
\* applies), then writes the core clock register once, with 0x01000800
\* (internal source, autoblock), then makes the INIT call, immediately after
\* and never before; it returns true exactly when INIT returned success,
\* which erase shows by going on to the shared erase primitive.
C17_FlashInitOrder ==
    RanFlashInit =>
        /\ Len(SelectSeq(io, IsClkWrite)) = 1
        /\ Len(SelectSeq(io, IsInitCall)) = 1
        /\ LET k == ClkWriteAt
           IN  /\ k \in {2, 3}
               /\ io[k].val = W(256, 2048)
               /\ \A i \in 1..(k - 1) : IsWdtAccess(io[i])
               /\ io[1].op = "read32" /\ io[1].addr = W(16392, 0)
               /\ Len(io) > k /\ IsInitCall(io[k + 1])
               /\ call.fn = "lpc43xx_flash_erase" =>
                     /\ (io[k + 1].status = 0) <=> (Len(io) = k + 2)
                     /\ (io[k + 1].status # 0) <=> (Len(io) = k + 1)
                     /\ io[k + 1].status # 0 => call.ret = -1

\* the count written, then the clock, then INIT, at a mass erase
C17_Witness ==
    /\ RanFlashInit /\ call.fn = "lpc43xx_mass_erase"
    /\ IsCntWrite(io[2]) /\ IsClkWrite(io[3]) /\ IsInitCall(io[4])

\* C18: in mass_erase and in mkboot, when the INIT call of the flash_init
\* they run does not return success, no further ROM call (PREPARE, ERASE,
\* SET_ACTIVE_BANK) is issued and the operation returns false.
C18_InitGatesRomCalls ==
    (/\ call.fn \in {"lpc43xx_mass_erase", "lpc43xx_cmd_mkboot"}
     /\ RanFlashInit
     /\ RomCalls[1].status # 0)
    => (Len(RomCalls) = 1 /\ call.ret = FALSE)

\* C19: whenever the probe returns false (family mismatch or chip code not
\* 4..7) the target descriptor is as it was before the call: driver name,
\* mass-erase callback, RAM and flash regions, command table and option
\* flags.
C19_RejectLeavesTarget ==
    (call.fn = "lpc43xx_probe" /\ call.ret = FALSE) => t = t_before

\* a word below 2^31 as a number
Val(w) == w.hi * 65536 + w.lo

\* the sector indices a flash region covers
SectorsOf(f) ==
    f.base_sector .. (f.base_sector + Val(f.length) \div Val(f.blocksize) - 1)

\* the flash regions registered for a bank
BankRegions(bank) == {i \in 1..Len(t.flash) : t.flash[i].bank = bank}

\* the sector range a PREPARE or ERASE call of the last call names
IsBankCall(e) == e.op = "iap" /\ e.cmd \in {"IAP_CMD_PREPARE", "IAP_CMD_ERASE"}
BankCalls == SelectSeq(io, IsBankCall)

\* C20: on a target with flash, each of bank 0 and bank 1 has two regions,
\* the second beginning at the address where the first ends, each a whole
\* number of blocks; their sector ranges are disjoint, the second beginning
\* where the first ends, and together they are 0..14, the range every
\* PREPARE and ERASE of a mass erase names for that bank.
C20_BankSectors ==
    (t.flash # << >>) =>
        \A bank \in {0, 1} :
            /\ Cardinality(BankRegions(bank)) = 2
            /\ \E i, j \in BankRegions(bank) :
                 LET lo == t.flash[i]
                     hi == t.flash[j]
                 IN  /\ i # j
                     /\ Val(lo.start) + Val(lo.length) = Val(hi.start)
                     /\ Val(lo.length) % Val(lo.blocksize) = 0
                     /\ Val(hi.length) % Val(hi.blocksize) = 0
                     /\ lo.blocksize # hi.blocksize
                     /\ SectorsOf(lo) \cap SectorsOf(hi) = {}
                     /\ SectorsOf(lo) # {} /\ SectorsOf(hi) # {}
                     /\ \A x \in SectorsOf(lo) : x < hi.base_sector
                     /\ SectorsOf(lo) \cup SectorsOf(hi) = 0..14
                     /\ MassErased =>
                           \A n \in 1..Len(BankCalls) :
                               BankCalls[n].args[Len(BankCalls[n].args)] = bank =>
                                   BankCalls[n].args[1] .. BankCalls[n].args[2]
                                       = SectorsOf(lo) \cup SectorsOf(hi)

\* both banks prepared and erased on a probed flash-bearing part
C20_Witness ==
    /\ Len(t.flash) = 4 /\ MassErased /\ call.ret = TRUE
    /\ Len(BankCalls) = 4

=============================================================================
